---- MODULE Spec2Model ----
(***************************************************************************)
(* A model of sec_final.py: the SECFilingExtractor pipeline that resolves  *)
(* tickers, lists 8-K filings, locates and fetches each filing document,   *)
(* detects product keywords and guesses a product name.                    *)
(*                                                                         *)
(* Python strings are modelled as sequences of one-character strings, so   *)
(* that find, slicing, lower(), strip() and the three regular expressions  *)
(* of extract_product_name are computed character by character.  Offsets   *)
(* are 0-based as in Python.                                               *)
(***************************************************************************)
EXTENDS Integers, Sequences, FiniteSets, TLC

\* ------------------------------------------------------------------------
\* Characters and string primitives
\* ------------------------------------------------------------------------

UpperSeq ==
    <<"A","B","C","D","E","F","G","H","I","J","K","L","M",
      "N","O","P","Q","R","S","T","U","V","W","X","Y","Z">>

LowerSeq ==
    <<"a","b","c","d","e","f","g","h","i","j","k","l","m",
      "n","o","p","q","r","s","t","u","v","w","x","y","z">>

UpperSet == {UpperSeq[k] : k \in 1..26}

LowerSet == {LowerSeq[k] : k \in 1..26}

DigitSet == {"0","1","2","3","4","5","6","7","8","9"}

\* [a-zA-Z0-9]
AlnumSet == UpperSet \cup LowerSet \cup DigitSet

\* \s and the characters str.strip() removes (ASCII part)
SpaceSet == {" ", "\t", "\n", "\r", "\f"}

\* the characters str.splitlines() breaks on (ASCII part; "\r\n" is one break)
LineBreakSet == {"\n", "\r", "\f"}

Quote == "\""

ToLower == [c \in UpperSet |-> LowerSeq[CHOOSE k \in 1..26 : UpperSeq[k] = c]]

LowerCh(c) == IF c \in UpperSet THEN ToLower[c] ELSE c

\* str.lower()
Lower(s) == [i \in 1..Len(s) |-> LowerCh(s[i])]

Max(a, b) == IF a >= b THEN a ELSE b

Min(a, b) == IF a <= b THEN a ELSE b

\* s[a:b] for 0 <= a, 0 <= b (Python clamps both to len(s))
Slice(s, a, b) ==
    LET lo == Min(a, Len(s))
        hi == Min(b, Len(s))
    IN  IF lo >= hi THEN <<>> ELSE SubSeq(s, lo + 1, hi)

\* s[a:]
SliceFrom(s, a) == Slice(s, a, Len(s))

\* s.startswith(sub, i)
StartsAt(s, i, sub) ==
    /\ i >= 0
    /\ i + Len(sub) <= Len(s)
    /\ \A k \in 1..Len(sub) : s[i + k] = sub[k]

\* s.find(sub, from): the lowest 0-based offset >= from, or -1
FindFrom(s, sub, from) ==
    LET hits == {i \in from..(Len(s) - Len(sub)) : StartsAt(s, i, sub)}
    IN  IF hits = {} THEN -1 ELSE CHOOSE i \in hits : \A j \in hits : i <= j

\* s.find(sub)
Find(s, sub) == FindFrom(s, sub, 0)

\* sub in s
Contains(s, sub) == Find(s, sub) # -1

\* s.strip()
Strip(s) ==
    LET keep == {i \in 1..Len(s) : s[i] \notin SpaceSet}
    IN  IF keep = {} THEN <<>>
        ELSE LET lo == CHOOSE i \in keep : \A j \in keep : i <= j
                 hi == CHOOSE i \in keep : \A j \in keep : i >= j
             IN  SubSeq(s, lo, hi)

\* the end (exclusive, 0-based) of the longest run of characters of cls
\* starting at offset p: what a greedy cls* consumes
RunEnd(s, p, cls) ==
    LET stops == {i \in p..Len(s) : i = Len(s) \/ s[i + 1] \notin cls}
    IN  CHOOSE i \in stops : \A j \in stops : i <= j

\* ------------------------------------------------------------------------
\* Config
\* ------------------------------------------------------------------------

\* Config.MAX_FILINGS_PER_COMPANY
MAX_FILINGS_PER_COMPANY == 5

\* Config.MAX_COMPANIES
MAX_COMPANIES == 5

\* Config.PRODUCT_KEYWORDS
PRODUCT_KEYWORDS ==
    << <<"n","e","w"," ","p","r","o","d","u","c","t">>,
       <<"l","a","u","n","c","h">>,
       <<"a","n","n","o","u","n","c","e">>,
       <<"i","n","t","r","o","d","u","c","e">>,
       <<"u","n","v","e","i","l">>,
       <<"r","e","l","e","a","s","e">>,
       <<"i","n","n","o","v","a","t","i","o","n">>,
       <<"t","e","c","h","n","o","l","o","g","y">> >>

\* ------------------------------------------------------------------------
\* contains_product_info
\* ------------------------------------------------------------------------

\* the keyword found at the lowest offset of the text instead of the first
\* of the list
first_keyword_by_position(text_lower) ==
    LET hits == {k \in 1..Len(PRODUCT_KEYWORDS) :
                    Contains(text_lower, PRODUCT_KEYWORDS[k])}
    IN  IF hits = {} THEN 0
        ELSE CHOOSE k \in hits :
                 \A j \in hits :
                     \/ Find(text_lower, PRODUCT_KEYWORDS[k])
                            < Find(text_lower, PRODUCT_KEYWORDS[j])
                     \/ /\ Find(text_lower, PRODUCT_KEYWORDS[k])
                               = Find(text_lower, PRODUCT_KEYWORDS[j])
                        /\ k <= j

\* the loop "for keyword in Config.PRODUCT_KEYWORDS: if keyword in text_lower":
\* the index of the keyword the loop returns on, or 0 when it runs to the end
first_keyword(text_lower) ==
    LET hits == {k \in 1..Len(PRODUCT_KEYWORDS) :
                    Contains(text_lower, PRODUCT_KEYWORDS[k])}
    IN  IF hits = {} THEN 0 ELSE CHOOSE k \in hits : \A j \in hits : k <= j

contains_product_info(text) ==
    LET text_lower == Lower(text)
        k == first_keyword(text_lower)
    IN  IF k = 0
        THEN [found |-> FALSE, context |-> <<>>, keyword |-> <<>>]
        ELSE LET keyword == PRODUCT_KEYWORDS[k]
                 keyword_index == Find(text_lower, keyword)
                 start == Max(0, keyword_index - 100)
                 end == Min(Len(text), keyword_index + 200)
             IN  [found |-> TRUE, context |-> Slice(text, start, end),
                  keyword |-> keyword]

\* ------------------------------------------------------------------------
\* extract_product_name
\* ------------------------------------------------------------------------

NoMatch == [ok |-> FALSE, group |-> <<>>]

\* re.escape(keyword) under re.IGNORECASE matching at offset i
keyword_at(s, i, keyword) == StartsAt(Lower(s), i, Lower(keyword))

\* the offsets, lowest first, at which a search tries the keyword
keyword_starts(s, keyword) ==
    {i \in 0..Len(s) : keyword_at(s, i, keyword)}

\* keyword[^"]*"([^"]+)" tried with the keyword at offset i: [^"]* runs to
\* the first quote at or after the keyword's end, the group to the next quote
quote_at(s, i, keyword) ==
    LET e == i + Len(keyword)
        q1 == FindFrom(s, <<Quote>>, e)
        q2 == IF q1 = -1 THEN -1 ELSE FindFrom(s, <<Quote>>, q1 + 1)
    IN  IF q1 # -1 /\ q2 # -1 /\ q2 > q1 + 1
        THEN [ok |-> TRUE, group |-> Slice(s, q1 + 1, q2)]
        ELSE NoMatch

\* quote_pattern.search(context)
quote_pattern(context, keyword) ==
    LET ok == {i \in keyword_starts(context, keyword) :
                  quote_at(context, i, keyword).ok}
    IN  IF ok = {} THEN NoMatch
        ELSE quote_at(context, CHOOSE i \in ok : \A j \in ok : i <= j, keyword)

\* (?:\s+[A-Z][a-zA-Z0-9]*){0,n} continued greedily from offset p
RECURSIVE cap_words_more(_, _, _)
cap_words_more(s, p, n) ==
    IF n = 0 THEN p
    ELSE LET w == RunEnd(s, p, SpaceSet)
         IN  IF w > p /\ w < Len(s) /\ s[w + 1] \in UpperSet
             THEN cap_words_more(s, RunEnd(s, w + 1, AlnumSet), n - 1)
             ELSE p

\* cap_words_pattern.search(words_after):
\* ([A-Z][a-zA-Z0-9]*(?:\s+[A-Z][a-zA-Z0-9]*){0,5}), case-sensitive
cap_words_pattern(words_after) ==
    LET ups == {i \in 0..(Len(words_after) - 1) : words_after[i + 1] \in UpperSet}
    IN  IF ups = {} THEN NoMatch
        ELSE LET b == CHOOSE i \in ups : \A j \in ups : i <= j
                 e == cap_words_more(words_after,
                                     RunEnd(words_after, b + 1, AlnumSet), 5)
             IN  [ok |-> TRUE, group |-> Slice(words_after, b, e)]

\* (?:\s+[a-zA-Z0-9]+){0,n} continued greedily from offset p
RECURSIVE the_words_more(_, _, _)
the_words_more(s, p, n) ==
    IF n = 0 THEN p
    ELSE LET w == RunEnd(s, p, SpaceSet)
         IN  IF w > p /\ w < Len(s) /\ s[w + 1] \in AlnumSet
             THEN the_words_more(s, RunEnd(s, w, AlnumSet), n - 1)
             ELSE p

\* the\s+([A-Z]... at offset j under re.IGNORECASE: "the" in any case, then
\* white space, then a character [A-Z] matches ignoring case: any letter
the_at(s, j) ==
    /\ StartsAt(Lower(s), j, <<"t","h","e">>)
    /\ LET w == RunEnd(s, j + 3, SpaceSet)
       IN  w > j + 3 /\ w < Len(s) /\ s[w + 1] \in (UpperSet \cup LowerSet)

\* [^.]*?the... after the keyword's end e: the lowest offset j of a "the"
\* that matches with no period in s[e:j], or -1
the_from(s, e) ==
    LET js == {j \in e..Len(s) :
                  /\ \A k \in (e + 1)..j : s[k] # "."
                  /\ the_at(s, j)}
    IN  IF js = {} THEN -1 ELSE CHOOSE j \in js : \A k \in js : j <= k

\* the_pattern.search(context):
\* keyword[^.]*?the\s+([A-Z][a-zA-Z0-9]*(?:\s+[a-zA-Z0-9]+){0,4}), re.IGNORECASE
the_pattern(context, keyword) ==
    LET ok == {i \in keyword_starts(context, keyword) :
                  the_from(context, i + Len(keyword)) # -1}
    IN  IF ok = {} THEN NoMatch
        ELSE LET i == CHOOSE a \in ok : \A b \in ok : a <= b
                 j == the_from(context, i + Len(keyword))
                 w == RunEnd(context, j + 3, SpaceSet)
                 e == the_words_more(context, RunEnd(context, w + 1, AlnumSet), 4)
             IN  [ok |-> TRUE, group |-> Slice(context, w, e)]

\* the fallback literal "New Product"
NewProduct == <<"N","e","w"," ","P","r","o","d","u","c","t">>

\* the number (1, 2, 3) of the heuristic that produces the name, 0: the fallback
heuristic(context, keyword) ==
    LET words_after ==
            Strip(SliceFrom(context, Find(Lower(context), keyword) + Len(keyword)))
    IN  IF quote_pattern(context, keyword).ok THEN 1
        ELSE IF cap_words_pattern(words_after).ok THEN 2
        ELSE IF the_pattern(context, keyword).ok THEN 3
        ELSE 0

extract_product_name(context, keyword) ==
    LET words_after ==
            Strip(SliceFrom(context, Find(Lower(context), keyword) + Len(keyword)))
        m1 == quote_pattern(context, keyword)
        m2 == cap_words_pattern(words_after)
        m3 == the_pattern(context, keyword)
    IN  IF m1.ok THEN Strip(m1.group)
        ELSE IF m2.ok THEN Strip(m2.group)
        ELSE IF m3.ok THEN Strip(m3.group)
        ELSE NewProduct

\* ------------------------------------------------------------------------
\* HTTP responses
\*
\* requests.get either raises or returns a response with a status code and
\* a body.  A JSON body is [json_ok, data]: response.json() raises when
\* json_ok is FALSE.  An HTML body is the tree BeautifulSoup builds from it.
\* ------------------------------------------------------------------------

\* the except clause of each retrieval step: what the try block raised is
\* replaced by the step's empty value
Returned(v) == [raised |-> FALSE, value |-> v]

Raised == [raised |-> TRUE, value |-> <<>>]

\* ------------------------------------------------------------------------
\* get_company_tickers
\* ------------------------------------------------------------------------

DigitSeq == <<"0","1","2","3","4","5","6","7","8","9">>

\* str(n) for an int n >= 0
RECURSIVE str(_)
str(n) ==
    IF n < 10 THEN <<DigitSeq[n + 1]>>
    ELSE str(n \div 10) \o <<DigitSeq[(n % 10) + 1]>>

\* s.zfill(width) for an unsigned s
RECURSIVE zfill(_, _)
zfill(s, width) == IF Len(s) >= width THEN s ELSE zfill(<<"0">> \o s, width)

\* the try block of get_company_tickers (lines 62-82): tickers_data is the
\* sequence of the payload's values, in the payload's order
company_tickers_body(response) ==
    IF response.raises THEN Raised
    ELSE IF response.status_code # 200 THEN Returned(<<>>)
    ELSE IF ~response.body.json_ok THEN Raised
    ELSE LET tickers_data == response.body.data
             complete == \A k \in 1..Len(tickers_data) :
                            {"ticker", "cik_str"} \subseteq DOMAIN tickers_data[k]
         IN  IF ~complete THEN Raised
             ELSE LET last(t) == CHOOSE k \in 1..Len(tickers_data) :
                                    /\ tickers_data[k].ticker = t
                                    /\ \A j \in (k + 1)..Len(tickers_data) :
                                          tickers_data[j].ticker # t
                  IN  Returned([t \in {tickers_data[k].ticker :
                                          k \in 1..Len(tickers_data)} |->
                                   zfill(str(tickers_data[last(t)].cik_str), 10)])

\* get_company_tickers with the except clause left out
company_tickers_unguarded(response) == company_tickers_body(response)

\* get_company_tickers: "except Exception: return {}"
get_company_tickers(response) ==
    LET r == company_tickers_body(response)
    IN  IF r.raised THEN Returned(<<>>) ELSE r

\* ------------------------------------------------------------------------
\* get_recent_filings
\* ------------------------------------------------------------------------

ArchivesPrefix ==
    <<"h","t","t","p","s",":","/","/","w","w","w",".","s","e","c",".",
      "g","o","v","/","A","r","c","h","i","v","e","s","/","e","d","g",
      "a","r","/","d","a","t","a","/">>

IndexSuffix == <<"-","i","n","d","e","x",".","h","t","m">>

\* accession_number.replace('-', '')
without_dashes(accession_number) ==
    SelectSeq(accession_number, LAMBDA c : c # "-")

\* the break test written with > for >=
reached_count_late(filings, count) == Len(filings) > count

\* "if len(filings) >= count: break"
reached_count(filings, count) == Len(filings) >= count

\* "if form == form_type"
form_matches(form, form_type) == form = form_type

\* the record appended for position i (lines 120-140), or Raised when an
\* array has no position i or filingDate is missing
filing_at(recent, cik, i) ==
    IF \/ i > Len(recent.accessionNumber)
       \/ "filingDate" \notin DOMAIN recent
       \/ i > Len(recent.filingDate)
       \/ ("primaryDocument" \in DOMAIN recent /\ i > Len(recent.primaryDocument))
       \/ ("primaryDocument" \notin DOMAIN recent /\ i > 1)
    THEN Raised
    ELSE LET accession_number == recent.accessionNumber[i]
             primary_doc == IF "primaryDocument" \in DOMAIN recent
                            THEN recent.primaryDocument[i] ELSE <<>>
             acc_no_without_dashes == without_dashes(accession_number)
             dir == ArchivesPrefix \o cik \o <<"/">> \o acc_no_without_dashes
                        \o <<"/">>
         IN  Returned([accessionNumber |-> accession_number,
                       filingDate |-> recent.filingDate[i],
                       indexUrl |-> dir \o accession_number \o IndexSuffix,
                       docUrl |-> IF primary_doc # <<>> THEN dir \o primary_doc
                                  ELSE <<>>])

\* "for i, form in enumerate(recent_filings['form'])" from position i on,
\* with the records collected so far
RECURSIVE filings_loop(_, _, _, _, _, _)
filings_loop(recent, cik, form_type, count, i, filings) ==
    IF i > Len(recent.form) THEN Returned(filings)
    ELSE IF ~form_matches(recent.form[i], form_type)
         THEN filings_loop(recent, cik, form_type, count, i + 1, filings)
    ELSE LET f == filing_at(recent, cik, i)
         IN  IF f.raised THEN Raised
             ELSE LET more == Append(filings, f.value)
                  IN  IF reached_count(more, count) THEN Returned(more)
                      ELSE filings_loop(recent, cik, form_type, count, i + 1, more)

\* the try block of get_recent_filings (lines 93-146)
recent_filings_body(response, cik, form_type, count) ==
    IF response.raises THEN Raised
    ELSE IF response.status_code # 200 THEN Returned(<<>>)
    ELSE IF ~response.body.json_ok THEN Raised
    ELSE LET data == response.body.data
         IN  IF "filings" \notin DOMAIN data \/ "recent" \notin DOMAIN data.filings
             THEN Returned(<<>>)
             ELSE LET recent_filings == data.filings.recent
                  IN  IF \/ "form" \notin DOMAIN recent_filings
                         \/ "accessionNumber" \notin DOMAIN recent_filings
                      THEN Returned(<<>>)
                      ELSE filings_loop(recent_filings, cik, form_type, count,
                                        1, <<>>)

\* get_recent_filings with the except clause left out
recent_filings_unguarded(response, cik, form_type, count) ==
    recent_filings_body(response, cik, form_type, count)

\* get_recent_filings: "except Exception: return []"
get_recent_filings(response, cik, form_type, count) ==
    LET r == recent_filings_body(response, cik, form_type, count)
    IN  IF r.raised THEN Returned(<<>>) ELSE r

\* ------------------------------------------------------------------------
\* get_document_from_index
\*
\* The parsed index page is a sequence of tables [summary, rows]; a row is
\* the sequence of its td cells [text, links], links being the href of each
\* <a> in the cell (<<>> for an <a> with no href).
\* ------------------------------------------------------------------------

\* Python's None, which "if not doc_url" treats like the empty string
None == <<>>

DocumentFormatFiles ==
    <<"D","o","c","u","m","e","n","t"," ","F","o","r","m","a","t"," ",
      "F","i","l","e","s">>

SecGov ==
    <<"h","t","t","p","s",":","/","/","w","w","w",".","s","e","c",".",
      "g","o","v">>

\* description.lower() == "8-k" or "form 8-k" in description.lower()
is_8k_description(description) ==
    \/ Lower(description) = <<"8","-","k">>
    \/ Contains(Lower(description), <<"f","o","r","m"," ","8","-","k">>)

\* the row test of lines 180-184: at least three cells, an 8-K description
\* in the second, and a first link with an href in the third
row_has_document(cells) ==
    /\ Len(cells) >= 3
    /\ is_8k_description(Strip(cells[2].text))
    /\ cells[3].links # <<>>
    /\ cells[3].links[1] # <<>>

\* lines 185-189
absolute_url(href) == IF StartsAt(href, 0, <<"/">>) THEN SecGov \o href ELSE href

\* the try block of get_document_from_index (lines 156-195)
document_from_index_body(response) ==
    IF response.raises THEN Raised
    ELSE IF response.status_code # 200 THEN Returned(None)
    ELSE LET soup == response.body
             tables == {t \in 1..Len(soup) : soup[t].summary = DocumentFormatFiles}
         IN  IF tables = {} THEN Returned(None)
             ELSE LET rows == soup[CHOOSE t \in tables : \A u \in tables : t <= u].rows
                      hits == {r \in 1..Len(rows) : row_has_document(rows[r])}
                  IN  IF hits = {} THEN Returned(None)
                      ELSE LET r == CHOOSE a \in hits : \A b \in hits : a <= b
                           IN  Returned(absolute_url(rows[r][3].links[1]))

\* get_document_from_index: "except Exception: return None"
get_document_from_index(response) ==
    LET r == document_from_index_body(response)
    IN  IF r.raised THEN Returned(None) ELSE r

\* ------------------------------------------------------------------------
\* get_filing_text
\*
\* The parsed document is the sequence of its elements [name, text].
\* ------------------------------------------------------------------------

\* str.splitlines(): the lines of s from position i on, a line ending at
\* the next line break, "\r\n" being one break
RECURSIVE splitlines_from(_, _)
splitlines_from(s, i) ==
    IF i > Len(s) THEN <<>>
    ELSE LET breaks == {j \in i..Len(s) : s[j] \in LineBreakSet}
         IN  IF breaks = {} THEN <<SubSeq(s, i, Len(s))>>
             ELSE LET b == CHOOSE j \in breaks : \A k \in breaks : j <= k
                      after == IF s[b] = "\r" /\ b < Len(s) /\ s[b + 1] = "\n"
                               THEN b + 2 ELSE b + 1
                  IN  <<SubSeq(s, i, b - 1)>> \o splitlines_from(s, after)

splitlines(s) == splitlines_from(s, 1)

\* line.split("  "): the pieces of s from position i on, a piece ending at
\* the next two spaces
RECURSIVE split2_from(_, _)
split2_from(s, i) ==
    LET seps == {j \in i..(Len(s) - 1) : s[j] = " " /\ s[j + 1] = " "}
    IN  IF seps = {} THEN <<SubSeq(s, i, Len(s))>>
        ELSE LET b == CHOOSE j \in seps : \A k \in seps : j <= k
             IN  <<SubSeq(s, i, b - 1)>> \o split2_from(s, b + 2)

split2(s) == split2_from(s, 1)

\* '\n'.join(parts)
RECURSIVE join_lines(_)
join_lines(parts) ==
    IF parts = <<>> THEN <<>>
    ELSE IF Len(parts) = 1 THEN parts[1]
    ELSE parts[1] \o <<"\n">> \o join_lines(Tail(parts))

\* the stripped, non-empty phrases of the lines from position k on
RECURSIVE chunks_from(_, _)
chunks_from(lines, k) ==
    IF k > Len(lines) THEN <<>>
    ELSE LET phrases == split2(Strip(lines[k]))
             stripped == [j \in 1..Len(phrases) |-> Strip(phrases[j])]
         IN  SelectSeq(stripped, LAMBDA c : c # <<>>) \o chunks_from(lines, k + 1)

\* lines 225-227
normalize(text) == join_lines(chunks_from(splitlines(text), 1))

\* soup.get_text() once the script and style elements are extracted
RECURSIVE get_text(_)
get_text(soup) ==
    IF soup = <<>> THEN <<>>
    ELSE (IF soup[1].name \in {"script", "style"} THEN <<>> ELSE soup[1].text)
             \o get_text(Tail(soup))

\* the try block of get_filing_text (lines 205-230)
filing_text_body(response) ==
    IF response.raises THEN Raised
    ELSE IF response.status_code # 200 THEN Returned(<<>>)
    ELSE Returned(normalize(get_text(response.body)))

\* get_filing_text: "except Exception: return ''"
get_filing_text(response) ==
    LET r == filing_text_body(response)
    IN  IF r.raised THEN Returned(<<>>) ELSE r

\* ------------------------------------------------------------------------
\* The upstream service
\*
\* A run talks to one service, fixed for the run: world names the response
\* to the ticker request, the response to each company's submissions
\* request, and the response to the index and document request of each
\* filing.  The responses below cover each outcome the code distinguishes.
\* ------------------------------------------------------------------------

Fails == [raises |-> TRUE, status_code |-> 0, body |-> <<>>]

Status(code) == [raises |-> FALSE, status_code |-> code, body |-> <<>>]

Ok(body) == [raises |-> FALSE, status_code |-> 200, body |-> body]

Json(data) == Ok([json_ok |-> TRUE, data |-> data])

NotJson == Ok([json_ok |-> FALSE, data |-> <<>>])

TickerResponses ==
    << Fails,
       Status(403),
       NotJson,
       Json(<< [ticker |-> "AAPL", cik_str |-> 320193], [ticker |-> "MSFT"] >>),
       Json(<< >>),
       Json(<< [ticker |-> "AAPL", cik_str |-> 320193] >>),
       Json(<< [ticker |-> "TSLA", cik_str |-> 1318605],
               [ticker |-> "META", cik_str |-> 1326801],
               [ticker |-> "GOOGL", cik_str |-> 1652044],
               [ticker |-> "AAPL", cik_str |-> 320193] >>),
       Json(<< [ticker |-> "AAPL", cik_str |-> 320193],
               [ticker |-> "MSFT", cik_str |-> 789019],
               [ticker |-> "GOOGL", cik_str |-> 1652044],
               [ticker |-> "AMZN", cik_str |-> 1018724],
               [ticker |-> "META", cik_str |-> 1326801] >>) >>

\* the accession number a registrant gives its k-th filing of the year
Accession(cik, k) == cik \o <<"-","2","5","-","0","0","0","0","0">> \o str(k)

PrimaryName == <<"f","o","r","m","8","k",".","h","t","m">>

\* one 8-K, with its primary document
RecentOne(cik) ==
    [form |-> <<"8-K">>,
     accessionNumber |-> <<Accession(cik, 1)>>,
     filingDate |-> <<"2025-01-03">>,
     primaryDocument |-> <<PrimaryName>>]

\* eight filings, six of them 8-K, two of those with no primary document
RecentMany(cik) ==
    [form |-> <<"10-Q", "8-K", "8-K", "8-k", "8-K", "8-K", "8-K", "8-K">>,
     accessionNumber |-> [k \in 1..8 |-> Accession(cik, k)],
     filingDate |-> <<"2025-03-01", "2025-02-20", "2025-02-11", "2025-02-02",
                      "2025-01-28", "2025-01-15", "2025-01-09", "2025-01-03">>,
     primaryDocument |-> <<PrimaryName, PrimaryName, <<>>, PrimaryName,
                           PrimaryName, <<>>, PrimaryName, PrimaryName>>]

\* an 8-K first, and no primaryDocument array
RecentNoDocs(cik) ==
    [form |-> <<"8-K", "4">>,
     accessionNumber |-> <<Accession(cik, 1), Accession(cik, 2)>>,
     filingDate |-> <<"2025-01-03", "2025-01-02">>]

\* the form type in another case only
RecentLower(cik) ==
    [form |-> <<"8-k", "10-K">>,
     accessionNumber |-> <<Accession(cik, 1), Accession(cik, 2)>>,
     filingDate |-> <<"2025-01-03", "2025-01-02">>,
     primaryDocument |-> <<PrimaryName, PrimaryName>>]

\* arrays of unequal length: the second 8-K has no filing date
RecentShort(cik) ==
    [form |-> <<"8-K", "8-K">>,
     accessionNumber |-> <<Accession(cik, 1), Accession(cik, 2)>>,
     filingDate |-> <<"2025-01-03">>,
     primaryDocument |-> <<PrimaryName, PrimaryName>>]

SubmissionsResponses(cik) ==
    << Fails,
       Status(404),
       NotJson,
       Json([cik |-> cik]),
       Json([filings |-> [recent |-> [accessionNumber |-> <<>>]]]),
       Json([filings |-> [recent |-> RecentOne(cik)]]),
       Json([filings |-> [recent |-> RecentMany(cik)]]),
       Json([filings |-> [recent |-> RecentNoDocs(cik)]]),
       Json([filings |-> [recent |-> RecentLower(cik)]]),
       Json([filings |-> [recent |-> RecentShort(cik)]]) >>

NSubmissions == Len(SubmissionsResponses(<<>>))

Cell(text, links) == [text |-> text, links |-> links]

EmptyCell == Cell(<<>>, <<>>)

FilesTable(rows) == [summary |-> DocumentFormatFiles, rows |-> rows]

RelativeHref == <<"/","A","r","c","h","i","v","e","s","/","e","d","g","a","r","/",
      "d","a","t","a","/","3","2","0","1","9","3","/","f","o","r","m",
      "8","k",".","h","t","m">>

AbsoluteHref == <<"h","t","t","p","s",":","/","/","w","w","w",".","s","e","c",".",
      "g","o","v","/","i","x","?","d","o","c","=","/","f","o","r","m",
      "8","k",".","h","t","m">>

IndexResponses ==
    << Fails,
       Status(503),
       \* no "Document Format Files" table
       Ok(<< [summary |-> <<"D","a","t","a"," ","F","i","l","e","s">>,
              rows |-> << <<EmptyCell, Cell(<<"8","-","K">>, <<>>),
                            Cell(<<>>, <<RelativeHref>>)>> >>] >>),
       \* a two-cell row, then an exhibit row
       Ok(<< FilesTable(<< <<EmptyCell, Cell(<<"8","-","K">>, <<>>)>>,
                          <<EmptyCell, Cell(<<"E","X","-","9","9",".","1">>, <<>>),
                            Cell(<<>>, <<RelativeHref>>)>> >>) >>),
       \* the 8-K row, its link site-relative
       Ok(<< FilesTable(<< <<EmptyCell, Cell(<<" ","8","-","K","\n">>, <<>>),
                            Cell(<<>>, <<RelativeHref>>)>> >>) >>),
       \* a "Form 8-K" row, its link absolute
       Ok(<< FilesTable(<< <<EmptyCell, Cell(<<"E","X","-","9","9",".","1">>, <<>>),
                            Cell(<<>>, <<RelativeHref>>)>>,
                          <<EmptyCell,
                            Cell(<<"C","u","r","r","e","n","t"," ","r","e","p","o","r","t"," ","(",
                                    "F","o","r","m"," ","8","-","K",")">>,
                                 <<>>),
                            Cell(<<>>, <<AbsoluteHref, RelativeHref>>)>> >>) >>),
       \* the 8-K row's first link has no href
       Ok(<< FilesTable(<< <<EmptyCell, Cell(<<"8","-","k">>, <<>>),
                            Cell(<<>>, << <<>>, RelativeHref >>)>> >>) >>) >>

NIndex == Len(IndexResponses)

Element(name, text) == [name |-> name, text |-> text]

AppleText ==
    <<"A","p","p","l","e"," ","t","o","d","a","y"," ","a","n","n","o",
      "u","n","c","e","d"," ","t","h","e"," ","i","P","h","o","n","e",
      " ","1","7"," ","w","i","t","h"," ","n","e","w"," ","f","e","a",
      "t","u","r","e","s",".">>

QuoteText ==
    <<"W","e"," ","w","i","l","l"," ","l","a","u","n","c","h"," ","\"",
      "V","i","s","i","o","n"," ","P","r","o","\""," "," ","n","e","x",
      "t"," ","y","e","a","r",".","\n">>

\* 'technology' comes before 'launch' in the text, after it in the list
PriorityText ==
    <<"O","u","r"," ","t","e","c","h","n","o","l","o","g","y"," ","r",
      "o","a","d","m","a","p",":","\r","\n"," "," ","w","e"," ","l","a",
      "u","n","c","h"," ","t","h","e"," ","u","p","d","a","t","e"," ",
      "i","n"," ","M","a","y",".">>

PlainText ==
    <<" ","Q","u","a","r","t","e","r","l","y"," "," ","r","e","s","u",
      "l","t","s"," ","\n"," ","w","e","r","e"," ","i","n"," ","l","i",
      "n","e","."," ">>

ScriptText ==
    <<"l","a","u","n","c","h","(",")",";">>

DocumentResponses ==
    << Fails,
       Status(404),
       \* nothing but a script and white space
       Ok(<< Element("script", ScriptText), Element("p", <<" ", "\n", " ">>) >>),
       Ok(<< Element("p", PlainText) >>),
       Ok(<< Element("p", AppleText) >>),
       Ok(<< Element("style", <<>>), Element("p", QuoteText) >>),
       Ok(<< Element("p", PriorityText), Element("script", ScriptText) >>),
       Ok(<< >>) >>

NDocuments == Len(DocumentResponses)

\* Responses are assigned to companies and filings by stepping through the
\* lists above ("rotate", from offset k) or all alike ("same", response k).
SubmissionsProfiles ==
    [mode : {"rotate"}, k : 0..(NSubmissions - 1)]
        \cup [mode : {"same"}, k : {6, 7, 8}]

DocumentProfiles ==
    [mode : {"rotate"}, k : 0..(NDocuments - 1)] \cup [mode : {"same"}, k : {5, 6}]

Worlds ==
    [tick : 1..Len(TickerResponses), subs : SubmissionsProfiles,
     docs : DocumentProfiles]

\* requests.get for the ticker directory and for the submissions of the
\* company at position c of the candidate list
http_get_tickers(w) == TickerResponses[w.tick]

http_get_submissions(w, c, cik) ==
    SubmissionsResponses(cik)[IF w.subs.mode = "same" THEN w.subs.k
                              ELSE ((3 * c + w.subs.k) % NSubmissions) + 1]

\* which of IndexResponses and of DocumentResponses the service gives for
\* the filing at position j of the list of the company at position c
index_number(w, c, j) == ((c + j + w.docs.k) % NIndex) + 1

document_number(w, c, j) ==
    IF w.docs.mode = "same" THEN w.docs.k
    ELSE ((3 * c + j + w.docs.k) % NDocuments) + 1

http_get_index(w, c, j) == IndexResponses[index_number(w, c, j)]

http_get_document(w, c, j) == DocumentResponses[document_number(w, c, j)]

\* What the code computes from each response of the service:
\* get_document_from_index of each index page, get_filing_text of each
\* document, contains_product_info of the text fetched, extract_product_name
\* of what was detected.  A run holds these in memo from its start, so that
\* a step that meets a response looks the value up instead of computing it
\* again.
DocumentUrlOf ==
    [n \in 1..NIndex |-> get_document_from_index(IndexResponses[n])]

FilingTextOf ==
    [n \in 1..NDocuments |-> get_filing_text(DocumentResponses[n])]

ProductInfoOf ==
    [n \in 1..NDocuments |-> contains_product_info(FilingTextOf[n].value)]

ProductNameOf ==
    [n \in 1..NDocuments |->
        extract_product_name(ProductInfoOf[n].context, ProductInfoOf[n].keyword)]

\* ------------------------------------------------------------------------
\* process_companies
\* ------------------------------------------------------------------------

VARIABLES
    world,          \* the upstream service of this run
    memo,           \* the code's functions on the service's responses
    pc,             \* the statement process_companies is at
    tickers_dict,   \* ticker -> CIK
    results,
    company_i,      \* position of the for loop in companies
    company_count,
    cik,
    filings,
    filing_i,       \* position of the for loop in filings
    doc_url,
    text,
    slept,          \* time.sleep calls since the last request
    requests,       \* the requests issued so far, each with the sleeps before it
    args,           \* a function called on its own: its arguments
    ret             \* and what it returned

vars ==
    <<world, memo, pc, tickers_dict, results, company_i, company_count, cik, filings,
      filing_i, doc_url, text, slept, requests, args, ret>>

\* the candidate list of process_companies
companies == <<"AAPL", "MSFT", "GOOGL", "AMZN", "META">>

\* the target form type, get_recent_filings' default
FormType == "8-K"

\* the delay left out
sleep_skipped(n) == n

\* time.sleep(Config.REQUEST_DELAY)
sleep(n) == n + 1

\* "if ticker not in tickers_dict"
not_in_tickers(ticker, dict) == ticker \notin DOMAIN dict

\* the keyword test left out: every fetched text is recorded
not_has_product_ignored(hit) == FALSE

\* "if not has_product"
not_has_product(hit) == ~hit.found

Request(kind, c, j) == [kind |-> kind, company |-> c, filing |-> j, sleeps |-> slept]

\* requests.get: the request is issued and the sleeps before it are spent
Issue(kind, c, j) ==
    /\ requests' = Append(requests, Request(kind, c, j))
    /\ slept' = 0

Sleep(from, to) ==
    /\ pc = from
    /\ pc' = to
    /\ slept' = sleep(slept)
    /\ UNCHANGED <<world, memo, tickers_dict, results, company_i, company_count, cik,
                   filings, filing_i, doc_url, text, requests, args, ret>>

Init ==
    /\ world \in Worlds
    /\ memo = [url |-> DocumentUrlOf, text |-> FilingTextOf,
               info |-> ProductInfoOf, name |-> ProductNameOf]
    /\ pc = "tickers_sleep"
    /\ tickers_dict = <<>>
    /\ results = <<>>
    /\ company_i = 0
    /\ company_count = 0
    /\ cik = <<>>
    /\ filings = <<>>
    /\ filing_i = 0
    /\ doc_url = <<>>
    /\ text = <<>>
    /\ slept = 0
    /\ requests = <<>>
    /\ args = <<>>
    /\ ret = <<>>

\* get_company_tickers, line 64
TickersSleep == Sleep("tickers_sleep", "tickers_get")

\* get_company_tickers from line 66, then lines 295-302
TickersGet ==
    /\ pc = "tickers_get"
    /\ Issue("tickers", 0, 0)
    /\ LET r == get_company_tickers(http_get_tickers(world))
       IN  IF r.raised
           THEN /\ pc' = "crashed"
                /\ UNCHANGED <<tickers_dict, company_i, company_count>>
           ELSE /\ tickers_dict' = r.value
                /\ IF DOMAIN r.value = {}
                   THEN /\ pc' = "done"
                        /\ UNCHANGED <<company_i, company_count>>
                   ELSE /\ pc' = "company"
                        /\ company_i' = 1
                        /\ company_count' = 0
    /\ results' = <<>>
    /\ UNCHANGED <<world, memo, cik, filings, filing_i, doc_url, text, args, ret>>

\* the head of "for ticker in companies", lines 304-316
NextCompany ==
    /\ pc = "company"
    /\ IF company_i > Len(companies)
       THEN /\ pc' = "done"
            /\ UNCHANGED <<company_i, company_count, cik>>
       ELSE IF company_count >= MAX_COMPANIES
       THEN /\ pc' = "done"
            /\ UNCHANGED <<company_i, company_count, cik>>
       ELSE IF not_in_tickers(companies[company_i], tickers_dict)
       THEN /\ company_i' = company_i + 1
            /\ UNCHANGED <<pc, company_count, cik>>
       ELSE /\ company_count' = company_count + 1
            /\ cik' = tickers_dict[companies[company_i]]
            /\ pc' = "filings_sleep"
            /\ UNCHANGED company_i
    /\ UNCHANGED <<world, memo, tickers_dict, results, filings, filing_i, doc_url, text,
                   slept, requests, args, ret>>

\* get_recent_filings, line 95
FilingsSleep == Sleep("filings_sleep", "filings_get")

\* get_recent_filings from line 97, then lines 319-323
FilingsGet ==
    /\ pc = "filings_get"
    /\ Issue("submissions", company_i, 0)
    /\ LET r == get_recent_filings(http_get_submissions(world, company_i, cik),
                                   cik, FormType, MAX_FILINGS_PER_COMPANY)
       IN  IF r.raised
           THEN /\ pc' = "crashed"
                /\ UNCHANGED <<filings, filing_i, company_i>>
           ELSE /\ filings' = r.value
                /\ IF r.value = <<>>
                   THEN /\ pc' = "company"
                        /\ company_i' = company_i + 1
                        /\ UNCHANGED filing_i
                   ELSE /\ pc' = "filing"
                        /\ filing_i' = 1
                        /\ UNCHANGED company_i
    /\ UNCHANGED <<world, memo, tickers_dict, results, company_count, cik, doc_url, text,
                   args, ret>>

\* the head of "for filing in filings", lines 326-333
NextFiling ==
    /\ pc = "filing"
    /\ IF filing_i > Len(filings)
       THEN /\ pc' = "company"
            /\ company_i' = company_i + 1
            /\ UNCHANGED doc_url
       ELSE IF filings[filing_i].docUrl # <<>>
       THEN /\ doc_url' = filings[filing_i].docUrl
            /\ pc' = "text_sleep"
            /\ UNCHANGED company_i
       ELSE /\ pc' = "index_sleep"
            /\ UNCHANGED <<doc_url, company_i>>
    /\ UNCHANGED <<world, memo, tickers_dict, results, company_count, cik, filings,
                   filing_i, text, slept, requests, args, ret>>

\* get_document_from_index, line 158
IndexSleep == Sleep("index_sleep", "index_get")

\* get_document_from_index from line 160, then lines 335-337
IndexGet ==
    /\ pc = "index_get"
    /\ Issue("index", company_i, filing_i)
    /\ LET r == memo.url[index_number(world, company_i, filing_i)]
       IN  IF r.raised
           THEN /\ pc' = "crashed"
                /\ UNCHANGED <<doc_url, filing_i>>
           ELSE /\ doc_url' = r.value
                /\ IF r.value = None
                   THEN /\ pc' = "filing"
                        /\ filing_i' = filing_i + 1
                   ELSE /\ pc' = "text_sleep"
                        /\ UNCHANGED filing_i
    /\ UNCHANGED <<world, memo, tickers_dict, results, company_i, company_count, cik,
                   filings, text, args, ret>>

\* get_filing_text, line 207
TextSleep == Sleep("text_sleep", "text_get")

\* get_filing_text from line 209, then lines 342-344
TextGet ==
    /\ pc = "text_get"
    /\ Issue("document", company_i, filing_i)
    /\ LET r == memo.text[document_number(world, company_i, filing_i)]
       IN  IF r.raised
           THEN /\ pc' = "crashed"
                /\ UNCHANGED <<text, filing_i>>
           ELSE /\ text' = r.value
                /\ IF r.value = <<>>
                   THEN /\ pc' = "filing"
                        /\ filing_i' = filing_i + 1
                   ELSE /\ pc' = "detect"
                        /\ UNCHANGED filing_i
    /\ UNCHANGED <<world, memo, tickers_dict, results, company_i, company_count, cik,
                   filings, doc_url, args, ret>>

\* lines 347-369: contains_product_info(text), text being the text fetched
\* for this filing, then extract_product_name(context, keyword)
Detect ==
    /\ pc = "detect"
    /\ LET n == document_number(world, company_i, filing_i)
           hit == memo.info[n]
       IN  IF not_has_product(hit)
           THEN UNCHANGED results
           ELSE results' = Append(results,
                    [Company |-> companies[company_i],
                     CIK |-> cik,
                     FilingDate |-> filings[filing_i].filingDate,
                     AccessionNumber |-> filings[filing_i].accessionNumber,
                     DocumentURL |-> doc_url,
                     ProductKeyword |-> hit.keyword,
                     ProductName |-> memo.name[n],
                     ProductContext |-> hit.context])
    /\ pc' = "filing"
    /\ filing_i' = filing_i + 1
    /\ UNCHANGED <<world, memo, tickers_dict, company_i, company_count, cik, filings,
                   doc_url, text, slept, requests, args, ret>>

Next ==
    \/ TickersSleep
    \/ TickersGet
    \/ NextCompany
    \/ FilingsSleep
    \/ FilingsGet
    \/ NextFiling
    \/ IndexSleep
    \/ IndexGet
    \/ TextSleep
    \/ TextGet
    \/ Detect

Spec == Init /\ [][Next]_vars

\* the run is sequential and each call returns: a step that can be taken is
\* taken
FairSpec == Spec /\ WF_vars(Next)

\* ------------------------------------------------------------------------
\* The functions called on their own
\*
\* Each specification below draws the arguments of one function from a
\* bounded set and applies the function once.
\* ------------------------------------------------------------------------

\* the pipeline's variables, unused by these specifications
Idle ==
    /\ world = <<>>
    /\ memo = <<>>
    /\ tickers_dict = <<>>
    /\ results = <<>>
    /\ company_i = 0
    /\ company_count = 0
    /\ cik = <<>>
    /\ filings = <<>>
    /\ filing_i = 0
    /\ doc_url = <<>>
    /\ text = <<>>
    /\ slept = 0
    /\ requests = <<>>

Return(v) ==
    /\ pc = "call"
    /\ pc' = "returned"
    /\ ret' = v
    /\ UNCHANGED <<world, memo, tickers_dict, results, company_i, company_count, cik,
                   filings, filing_i, doc_url, text, slept, requests, args>>

\* the concatenation of a sequence of strings
RECURSIVE Concat(_)
Concat(parts) == IF parts = <<>> THEN <<>> ELSE parts[1] \o Concat(Tail(parts))

\* the strings made of at most n of the given tokens
Strings(tokens, n) ==
    {Concat(parts) : parts \in UNION {[1..m -> tokens] : m \in 0..n}}

\* --- get_recent_filings -------------------------------------------------

MaxForms == 3

MaxCount == 3

Forms == {"8-K", "8-k", "10-Q"}

AppleCik == zfill(str(320193), 10)

\* a submissions payload with the given form array; shape "full" has every
\* array, "no_primary" lacks primaryDocument, "short" lacks the last date
RecentOf(forms, shape) ==
    LET n == Len(forms)
        base == [form |-> forms,
                 accessionNumber |-> [k \in 1..n |-> Accession(AppleCik, k)],
                 filingDate |-> [k \in 1..(IF shape = "short" /\ n > 0
                                           THEN n - 1 ELSE n) |-> "2025-01-03"]]
    IN  IF shape = "no_primary" THEN base
        ELSE [form |-> base.form,
              accessionNumber |-> base.accessionNumber,
              filingDate |-> base.filingDate,
              primaryDocument |-> [k \in 1..n |-> IF k % 2 = 1 THEN PrimaryName
                                                  ELSE <<>>]]

InitLister ==
    /\ Idle
    /\ pc = "call"
    /\ args \in [forms : UNION {[1..m -> Forms] : m \in 0..MaxForms},
                 shape : {"full", "no_primary", "short"},
                 form_type : Forms,
                 count : 0..MaxCount]
    /\ ret = <<>>

ListFilings ==
    Return(get_recent_filings(
               Json([filings |-> [recent |-> RecentOf(args.forms, args.shape)]]),
               AppleCik, args.form_type, args.count).value)

SpecLister == InitLister /\ [][ListFilings]_vars

\* --- contains_product_info ----------------------------------------------

MaxTextTokens == 3

TextTokens ==
    { <<"a","n","n","o","u","n","c","e">>,
      <<"L","A","U","N","C","H">>,
      <<"l","a","u">>,
      <<"n","c","h">>,
      <<"T","e","c","h","n","o","l","o","g","y">>,
      <<"N","e","w"," ","p","r","o","d","u","c","t">>,
      <<"n","e","w"," "," ","p","r","o","d","u","c","t">>,
      <<" ">>,
      <<"x",".">> }

InitDetector ==
    /\ Idle
    /\ pc = "call"
    /\ args \in [text : Strings(TextTokens, MaxTextTokens)]
    /\ ret = <<>>

DetectProduct == Return(contains_product_info(args.text))

SpecDetector == InitDetector /\ [][DetectProduct]_vars

\* --- extract_product_name -----------------------------------------------

MaxContextTokens == 4

ContextTokens ==
    { <<"a","n","n","o","u","n","c","e">>,
      <<"A","n","n","o","u","n","c","e">>,
      <<" ","t","h","e"," ">>,
      <<"\"">>,
      <<" ">>,
      <<"i","P","h","o","n","e">>,
      <<"u","p","d","a","t","e">>,
      <<"P","r","o">>,
      <<".">> }

Keywords ==
    { <<"a","n","n","o","u","n","c","e">>,
      <<"l","a","u","n","c","h">> }

InitExtractor ==
    /\ Idle
    /\ pc = "call"
    /\ args \in [context : Strings(ContextTokens, MaxContextTokens),
                 keyword : Keywords]
    /\ ret = <<>>

ExtractName == Return(extract_product_name(args.context, args.keyword))

SpecExtractor == InitExtractor /\ [][ExtractName]_vars

\* ------------------------------------------------------------------------
\* Properties
\* ------------------------------------------------------------------------

\* keyword occurs in s ignoring case, at 0-based offset i
OccursAt(s, i, keyword) ==
    /\ i + Len(keyword) <= Len(s)
    /\ \A j \in 1..Len(keyword) : LowerCh(s[i + j]) = LowerCh(keyword[j])

Occurs(s, keyword) == \E i \in 0..Len(s) : OccursAt(s, i, keyword)

\* the requests of one kind, in the order issued
RequestsOf(kind) == SelectSeq(requests, LAMBDA q : q.kind = kind)

\* the first n elements of a sequence
Prefix(seq, n) == SubSeq(seq, 1, Min(n, Len(seq)))

\* what the service answers for the filing at (c, j), as the code reads it
IndexAnswer(c, j) == DocumentUrlOf[index_number(world, c, j)].value

DocumentAnswer(c, j) == FilingTextOf[document_number(world, c, j)].value

\* C1: a record is appended only for the filing in progress, and only if a
\* non-empty document URL was obtained for it (its docUrl, or the one the
\* index page gave), the text fetched for it is non-empty, and a configured
\* keyword occurs in that text; any other step leaves the records alone.
C1_RecordOnlyForMatch ==
    [][results' # results =>
          /\ pc = "detect"
          /\ doc_url # <<>>
          /\ doc_url = (IF filings[filing_i].docUrl # <<>>
                        THEN filings[filing_i].docUrl
                        ELSE IndexAnswer(company_i, filing_i))
          /\ text # <<>>
          /\ text = DocumentAnswer(company_i, filing_i)
          /\ \E k \in 1..Len(PRODUCT_KEYWORDS) : Occurs(text, PRODUCT_KEYWORDS[k])
          /\ Len(results') = Len(results) + 1
          /\ SubSeq(results', 1, Len(results)) = results
          /\ results'[Len(results')].AccessionNumber
                 = filings[filing_i].accessionNumber
          /\ results'[Len(results')].DocumentURL = doc_url]_vars

\* a finished run that kept a record whose URL came from an index page and
\* dropped filings at each of the three tests
C1_Witness ==
    /\ pc = "done"
    /\ \E k \in 1..Len(results) : results[k].DocumentURL = SecGov \o RelativeHref
    /\ \E k \in 1..Len(requests) :
          /\ requests[k].kind = "index"
          /\ IndexAnswer(requests[k].company, requests[k].filing) = None
    /\ \E k \in 1..Len(requests) :
          /\ requests[k].kind = "document"
          /\ DocumentAnswer(requests[k].company, requests[k].filing) = <<>>
    /\ \E k \in 1..Len(requests) :
          /\ requests[k].kind = "document"
          /\ DocumentAnswer(requests[k].company, requests[k].filing) # <<>>
          /\ \A n \in 1..Len(PRODUCT_KEYWORDS) :
                ~Occurs(DocumentAnswer(requests[k].company, requests[k].filing),
                        PRODUCT_KEYWORDS[n])

\* the ticker request met a transport error, a non-200 status or a payload
\* that is not JSON or lacks a key
TickerResolutionFails ==
    LET response == http_get_tickers(world)
    IN  \/ response.raises
        \/ response.status_code # 200
        \/ ~response.body.json_ok
        \/ \E k \in 1..Len(response.body.data) :
              ~({"ticker", "cik_str"} \subseteq DOMAIN response.body.data[k])

\* C2: when ticker resolution fails, the mapping is empty and the run is over
\* as soon as the ticker request is answered, with no record, no request
\* after the ticker request, and no exception out of process_companies.
C2_TickerFailureEndsRun ==
    /\ pc # "crashed"
    /\ (TickerResolutionFails /\ requests # <<>>) =>
          /\ pc = "done"
          /\ tickers_dict = <<>>
          /\ results = <<>>
          /\ Len(requests) = 1
          /\ requests[1].kind = "tickers"

\* the run ended on a payload that parses but has an entry without cik_str
C2_Witness ==
    /\ pc = "done"
    /\ requests # <<>>
    /\ ~http_get_tickers(world).raises
    /\ http_get_tickers(world).status_code = 200
    /\ http_get_tickers(world).body.json_ok
    /\ TickerResolutionFails

GetPositions == {"tickers_get", "filings_get", "index_get", "text_get"}

\* C3: every request issued was preceded by exactly one sleep since the
\* request before it, and a sleep is followed at once by its request: a
\* sleep is pending exactly when the next step is a request.
C3_OneDelayBeforeEachRequest ==
    /\ \A k \in 1..Len(requests) : requests[k].sleeps = 1
    /\ pc \in GetPositions => slept = 1
    /\ pc \notin GetPositions => slept = 0

\* a finished run that issued all four kinds of request and went on to
\* another request after an exception, after a non-200 status and after a
\* success
C3_Witness ==
    /\ pc = "done"
    /\ \A kind \in {"tickers", "submissions", "index", "document"} :
          RequestsOf(kind) # <<>>
    /\ \E k \in 1..(Len(requests) - 1) :
          /\ requests[k].kind = "index"
          /\ http_get_index(world, requests[k].company, requests[k].filing).raises
    /\ \E k \in 1..(Len(requests) - 1) :
          /\ requests[k].kind = "document"
          /\ http_get_document(world, requests[k].company,
                               requests[k].filing).status_code = 404
    /\ \E k \in 1..(Len(requests) - 1) :
          /\ requests[k].kind = "document"
          /\ DocumentAnswer(requests[k].company, requests[k].filing) # <<>>

\* the candidates present in the ticker map, in list order
PresentCandidates == SelectSeq(companies, LAMBDA t : t \in DOMAIN tickers_dict)

\* the companies a filing list was requested for, in the order requested
ListedCompanies ==
    [k \in 1..Len(RequestsOf("submissions")) |->
        companies[RequestsOf("submissions")[k].company]]

\* the filings of company c a request was issued for
FilingsTouched(c) ==
    {requests[k].filing : k \in {n \in 1..Len(requests) :
        requests[n].company = c /\ requests[n].kind \in {"index", "document"}}}

\* C4: the companies listed so far are the first of the first MAX_COMPANIES
\* present candidates, in list order, and all of them once the run is done;
\* no company has more than MAX_FILINGS_PER_COMPANY filings processed; the
\* records never outnumber MAX_COMPANIES * MAX_FILINGS_PER_COMPANY.
C4_BoundedSelection ==
    /\ ListedCompanies
           = Prefix(Prefix(PresentCandidates, MAX_COMPANIES), Len(ListedCompanies))
    /\ pc = "done" => ListedCompanies = Prefix(PresentCandidates, MAX_COMPANIES)
    /\ Len(filings) <= MAX_FILINGS_PER_COMPANY
    /\ \A c \in 1..Len(companies) :
          Cardinality(FilingsTouched(c)) <= MAX_FILINGS_PER_COMPANY
    /\ Len(results) <= MAX_COMPANIES * MAX_FILINGS_PER_COMPANY

\* a finished run in which candidates were absent from the map and skipped,
\* and a company with six matching filings had five processed
C4_Witness ==
    /\ pc = "done"
    /\ Len(ListedCompanies) >= 2
    /\ Len(ListedCompanies) < Len(companies)
    /\ \E c \in 1..Len(companies) :
          /\ companies[c] \in DOMAIN tickers_dict
          /\ Cardinality(FilingsTouched(c)) = MAX_FILINGS_PER_COMPANY
          /\ LET recent == RecentMany(tickers_dict[companies[c]])
             IN  /\ Cardinality({i \in 1..Len(recent.form) :
                                    recent.form[i] = FormType})
                        > MAX_FILINGS_PER_COMPANY
                 /\ http_get_submissions(world, c, tickers_dict[companies[c]])
                        = Json([filings |-> [recent |-> recent]])

\* the filing list the code builds for candidate c
ListOf(c) ==
    get_recent_filings(
        http_get_submissions(world, c, tickers_dict[companies[c]]),
        tickers_dict[companies[c]], FormType, MAX_FILINGS_PER_COMPANY).value

\* every candidate of the map was listed and every filing listed was taken up
AllProcessed ==
    \A c \in 1..Len(companies) :
        companies[c] \in DOMAIN tickers_dict =>
            /\ \E k \in 1..Len(requests) :
                  requests[k].kind = "submissions" /\ requests[k].company = c
            /\ FilingsTouched(c) = 1..Len(ListOf(c))

\* C5: with a non-empty ticker map no step raises out of the run, records
\* once collected stay as they are, the run reaches done, and at done every
\* candidate of the map has been listed and every listed filing taken up,
\* whatever the outcome of the steps before.
C5_FailuresAreLocal ==
    /\ [](pc # "crashed")
    /\ [][Len(results') >= Len(results)
            /\ SubSeq(results', 1, Len(results)) = results]_vars
    /\ [](DOMAIN tickers_dict # {} => <>(pc = "done"))
    /\ []((pc = "done" /\ DOMAIN tickers_dict # {}) => AllProcessed)

\* a finished run in which a filing list request raised, a later company's
\* index request and document request failed, and a record was still
\* collected after each of them
C5_Witness ==
    /\ pc = "done"
    /\ DOMAIN tickers_dict # {}
    /\ \E c \in 1..Len(companies) :
          /\ companies[c] \in DOMAIN tickers_dict
          /\ http_get_submissions(world, c, tickers_dict[companies[c]]).raises
          /\ \E k \in 1..Len(results) :
                \E d \in (c + 1)..Len(companies) : results[k].Company = companies[d]
    /\ \E k \in 1..Len(requests) :
          /\ requests[k].kind = "index"
          /\ IndexAnswer(requests[k].company, requests[k].filing) = None
          /\ \E n \in 1..Len(results) :
                /\ results[n].Company = companies[requests[k].company]
                /\ \E j \in (requests[k].filing + 1)..Len(ListOf(requests[k].company)) :
                      results[n].AccessionNumber
                          = ListOf(requests[k].company)[j].accessionNumber
    /\ \E k \in 1..Len(requests) :
          /\ requests[k].kind = "document"
          /\ http_get_document(world, requests[k].company, requests[k].filing).raises

\* the position in the form array of the payload that a returned record was
\* built from, 0 if none
PositionOf(record) ==
    LET from == {k \in 1..Len(args.forms) :
                    record.accessionNumber = Accession(AppleCik, k)}
    IN  IF from = {} THEN 0 ELSE CHOOSE k \in from : TRUE

\* C6: whatever the payload, the form type and the count >= 0,
\* get_recent_filings returns at most count records, each built from a
\* position whose form equals the form type exactly, in the order of the
\* positions.
C6_AtMostCountInSourceOrder ==
    pc = "returned" =>
        /\ Len(ret) <= args.count
        /\ \A n \in 1..Len(ret) :
              /\ PositionOf(ret[n]) # 0
              /\ args.forms[PositionOf(ret[n])] = args.form_type
        /\ \A m, n \in 1..Len(ret) :
              m < n => PositionOf(ret[m]) < PositionOf(ret[n])

\* the configured keywords that occur in text, ignoring case
Occurring(t) ==
    {k \in 1..Len(PRODUCT_KEYWORDS) : Occurs(t, PRODUCT_KEYWORDS[k])}

\* the lowest offset at which keyword occurs in t, ignoring case
FirstOffset(t, keyword) ==
    CHOOSE i \in 0..Len(t) :
        /\ OccursAt(t, i, keyword)
        /\ \A j \in 0..(i - 1) : ~OccursAt(t, j, keyword)

\* C7: contains_product_info reports the first keyword of the configured
\* list among those occurring in the text, whatever their positions in the
\* text, and reports (False, "", "") exactly when none occurs.
C7_ListOrderWins ==
    pc = "returned" =>
        /\ ret.found <=> Occurring(args.text) # {}
        /\ ~ret.found => ret.context = <<>> /\ ret.keyword = <<>>
        /\ ret.found =>
              \E k \in Occurring(args.text) :
                  /\ \A j \in Occurring(args.text) : k <= j
                  /\ ret.keyword = PRODUCT_KEYWORDS[k]

\* a keyword was reported although a keyword later in the list occurs
\* earlier in the text
C7_Witness ==
    /\ pc = "returned"
    /\ ret.found
    /\ \E j \in Occurring(args.text) :
          /\ PRODUCT_KEYWORDS[j] # ret.keyword
          /\ FirstOffset(args.text, PRODUCT_KEYWORDS[j])
                 < FirstOffset(args.text, ret.keyword)

\* C8: extract_product_name returns a string of length at least 1 whichever
\* heuristic produces it, and "New Product" when no heuristic matches.
C8_NameNeverEmpty ==
    pc = "returned" =>
        /\ Len(ret) >= 1
        /\ heuristic(args.context, args.keyword) = 0 => ret = NewProduct

\* s occurs in t as written, at some offset
Within(t, s) ==
    \E i \in 0..(Len(t) - Len(s)) : \A j \in 1..Len(s) : t[i + j] = s[j]

ApplePayload == Json(<< [ticker |-> "AAPL", cik_str |-> 320193] >>)

AnnouncedTheIPhone17 ==
    <<"a","n","n","o","u","n","c","e","d"," ","t","h","e"," ",
      "i","P","h","o","n","e"," ","1","7">>

IPhone17 == <<"i","P","h","o","n","e"," ","1","7">>

\* the run of the end-to-end scenario: the ticker map is AAPL alone, its
\* list is one 8-K with a primary document, and the text fetched for it is
\* the Apple sentence
AppleScenario ==
    /\ http_get_tickers(world) = ApplePayload
    /\ http_get_submissions(world, 1, AppleCik)
           = Json([filings |-> [recent |-> RecentOne(AppleCik)]])
    /\ DocumentAnswer(1, 1) = AppleText

\* C9: the end-to-end scenario yields one record, with keyword "announce",
\* a context containing "announced the iPhone 17", and product name
\* "iPhone 17".
C9_AppleEndToEnd ==
    (pc = "done" /\ AppleScenario) =>
        /\ Len(results) = 1
        /\ results[1].ProductKeyword = <<"a","n","n","o","u","n","c","e">>
        /\ Within(results[1].ProductContext, AnnouncedTheIPhone17)
        /\ results[1].ProductName = IPhone17

\* the offset just after the first occurrence of keyword in context
AfterKeyword(context, keyword) == FirstOffset(context, keyword) + Len(keyword)

\* a span delimited by quotation marks lies after the keyword
QuotedSpanAfter(context, keyword) ==
    \E a, b \in (AfterKeyword(context, keyword) + 1)..Len(context) :
        a < b /\ context[a] = Quote /\ context[b] = Quote

\* a word starting with an uppercase letter lies after the keyword: the
\* letter follows the keyword at once or follows a character that is not
\* part of a word
CapitalWordAfter(context, keyword) ==
    \E p \in (AfterKeyword(context, keyword) + 1)..Len(context) :
        /\ context[p] \in UpperSet
        /\ p = AfterKeyword(context, keyword) + 1 \/ context[p - 1] \notin AlnumSet

\* "the", white space and a word starting with an uppercase letter lie
\* after the keyword
TheCapitalAfter(context, keyword) ==
    \E i \in AfterKeyword(context, keyword)..Len(context) :
        /\ OccursAt(context, i, <<"t","h","e">>)
        /\ \E p \in (i + 5)..Len(context) :
              /\ context[p] \in UpperSet
              /\ \A q \in (i + 4)..(p - 1) : context[q] \in SpaceSet

\* C10: for a keyword occurring in the context, with no quoted span, no
\* word starting with an uppercase letter and no "the" before such a word
\* after the keyword, extract_product_name returns "New Product"; so a name
\* produced by heuristic 2 or 3 begins with an uppercase letter.
C10_FallbackWithoutCapital ==
    (pc = "returned" /\ Occurs(args.context, args.keyword)) =>
        /\ (/\ ~QuotedSpanAfter(args.context, args.keyword)
            /\ ~CapitalWordAfter(args.context, args.keyword)
            /\ ~TheCapitalAfter(args.context, args.keyword))
               => ret = NewProduct
        /\ heuristic(args.context, args.keyword) \in {2, 3}
               => ret # <<>> /\ ret[1] \in UpperSet

====
